---- MODULE Spec2Model ----
(***************************************************************************)
(* Model of search_service/proxy/es_search_proxy.py (ElasticsearchProxy):  *)
(* query construction, filter translation, batched dispatch, response      *)
(* normalisation and the fetch-then-update document mutation helpers.      *)
(*                                                                         *)
(* Python values are modelled as tagged records [kind, v]:                 *)
(*   "str"/"None"       scalars                                            *)
(*   "list"/"dict"      plain python containers                            *)
(*   "AttrList"/"AttrDict"  the elasticsearch_dsl wrappers                  *)
(* Exceptions are modelled as results carrying the exception class name.  *)
(***************************************************************************)
EXTENDS Integers, Sequences, FiniteSets, TLC

(***************************************************************************)
(* Bounds of the model                                                     *)
(***************************************************************************)
MaxQueryFilters == 2
MaxValues == 2
MaxFilters == 2
MaxTypes == 2
MaxPage == 1
MaxTags == 2

(***************************************************************************)
(* String helpers: str.lower(), str.upper(), str.split('.')[0]             *)
(***************************************************************************)
Uppers == "ABCDEFGHIJKLMNOPQRSTUVWXYZ"
Lowers == "abcdefghijklmnopqrstuvwxyz"

RECURSIVE TranslateChar(_, _, _)
TranslateChar(c, from, to) ==
    IF Len(from) = 0 THEN c
    ELSE IF Head(from) = c THEN Head(to)
    ELSE TranslateChar(c, Tail(from), Tail(to))

RECURSIVE lower(_)
lower(s) ==
    IF Len(s) = 0 THEN "" ELSE TranslateChar(Head(s), Uppers, Lowers) \o lower(Tail(s))

RECURSIVE upper(_)
upper(s) ==
    IF Len(s) = 0 THEN "" ELSE TranslateChar(Head(s), Lowers, Uppers) \o upper(Tail(s))

RECURSIVE split_dot_first(_)
split_dot_first(s) ==
    IF Len(s) = 0 THEN ""
    ELSE IF Head(s) = "." THEN ""
    ELSE Head(s) \o split_dot_first(Tail(s))

(***************************************************************************)
(* Resource types and the field mapping registry                           *)
(***************************************************************************)
Resource == {"TABLE", "DASHBOARD", "FEATURE", "USER"}

PRIMARY_ENTITIES == <<"TABLE", "DASHBOARD", "FEATURE", "USER">>

TABLE_MAPPING ==
    [key |-> "key", description |-> "description", resource_type |-> "resource_type",
     badges |-> "badges.keyword", tag |-> "tags.keyword", schema |-> "schema.keyword",
     table |-> "name.keyword", column |-> "columns.keyword",
     database |-> "database.keyword", cluster |-> "cluster.keyword"]

DASHBOARD_MAPPING ==
    [key |-> "key", description |-> "description", resource_type |-> "resource_type",
     url |-> "url", uri |-> "uri",
     last_successful_run_timestamp |-> "last_successful_run_timestamp",
     group_name |-> "group_name.keyword", chart_names |-> "chart_names.keyword",
     query_names |-> "query_names.keyword", name |-> "name.keyword",
     tag |-> "tags.keyword"]

FEATURE_MAPPING ==
    [key |-> "key", description |-> "description", resource_type |-> "resource_type",
     version |-> "version", availability |-> "availability",
     feature_group |-> "feature_group.keyword", feature_name |-> "name.keyword",
     entity |-> "entity.keyword", status |-> "status.keyword",
     tags |-> "tags.keyword", badges |-> "badges.keyword"]

USER_MAPPING ==
    [full_name |-> "name.keyword", email |-> "key", first_name |-> "first_name",
     last_name |-> "last_name", resource_type |-> "resource_type"]

RESOUCE_TO_MAPPING ==
    [r \in Resource |->
        CASE r = "TABLE" -> TABLE_MAPPING
          [] r = "DASHBOARD" -> DASHBOARD_MAPPING
          [] r = "FEATURE" -> FEATURE_MAPPING
          [] r = "USER" -> USER_MAPPING]

\* dict.get(name) with the fallback to the literal name
MappedField(resource, name) ==
    IF name \in DOMAIN RESOUCE_TO_MAPPING[resource]
    THEN RESOUCE_TO_MAPPING[resource][name]
    ELSE name

get_index_for_resource(resource_type) == lower(resource_type) \o "_search_index"

\* the index of every resource type, and the _source field every canonical field is
\* read from (the mapping value with its ".keyword" suffix removed)
IndexOf == [r \in Resource |-> get_index_for_resource(r)]

SourceFields ==
    [r \in Resource |->
        [f \in DOMAIN RESOUCE_TO_MAPPING[r] |-> split_dot_first(RESOUCE_TO_MAPPING[r][f])]]

(***************************************************************************)
(* Query builder                                                           *)
(***************************************************************************)
DEFAULT_FUZZINESS == "AUTO"

FuzzyMatch(field, query_term, max_expansions, boost) ==
    [type |-> "match", field |-> field, query |-> query_term,
     fuzziness |-> DEFAULT_FUZZINESS, max_expansions |-> max_expansions, boost |-> boost]

FuzzyMatchNoBoost(field, query_term, max_expansions) ==
    [type |-> "match", field |-> field, query |-> query_term,
     fuzziness |-> DEFAULT_FUZZINESS, max_expansions |-> max_expansions]

ExactMatch(field, query_term) ==
    [type |-> "match", field |-> field, query |-> query_term]

GeneralShouldClauses(query_term) ==
    << FuzzyMatch("name", query_term, 10, "5"),
       FuzzyMatch("description", query_term, 10, "1.5"),
       FuzzyMatchNoBoost("badges", query_term, 10),
       FuzzyMatchNoBoost("tags", query_term, 10) >>

_build_must_query(resource, query_term) ==
    IF query_term = "" THEN << >>
    ELSE LET should_clauses ==
                CASE resource = "TABLE" ->
                        GeneralShouldClauses(query_term) \o
                        << FuzzyMatch("schema", query_term, 10, "3"),
                           FuzzyMatch("columns", query_term, 5, "2") >>
                  [] resource = "DASHBOARD" ->
                        GeneralShouldClauses(query_term) \o
                        << FuzzyMatch("group_name", query_term, 10, "3"),
                           FuzzyMatch("query_names", query_term, 10, "2"),
                           FuzzyMatch("chart_names", query_term, 10, "2"),
                           FuzzyMatch("uri", query_term, 10, "4") >>
                  [] resource = "FEATURE" ->
                        GeneralShouldClauses(query_term) \o
                        << FuzzyMatch("feature_group", query_term, 10, "3"),
                           ExactMatch("version", query_term),
                           FuzzyMatch("entity", query_term, 10, "2"),
                           ExactMatch("status", query_term) >>
                  [] resource = "USER" ->
                        << FuzzyMatch("name", query_term, 10, "5"),
                           FuzzyMatch("first_name", query_term, 10, "3"),
                           FuzzyMatch("last_name", query_term, 10, "3"),
                           FuzzyMatchNoBoost("team_name", query_term, 10),
                           FuzzyMatch("key", query_term, 10, "4") >>
                  [] OTHER -> GeneralShouldClauses(query_term)
         IN << [type |-> "bool", should |-> should_clauses] >>

RankFeature(metric) ==
    [type |-> "rank_feature", field |-> "usage." \o metric, boost |-> "10.0"]

\* _build_should_query without its empty-term early return
_build_should_query_always(resource, query_term) ==
    IF resource = "USER"
    THEN << RankFeature("total_read"), RankFeature("total_own"),
            RankFeature("total_follow") >>
    ELSE IF resource = "TABLE"
         THEN << RankFeature("total_usage"), RankFeature("unique_usage") >>
         ELSE << RankFeature("total_usage") >>

_build_should_query(resource, query_term) ==
    IF query_term = "" THEN << >>
    ELSE IF resource = "USER"
         THEN << RankFeature("total_read"), RankFeature("total_own"),
                 RankFeature("total_follow") >>
         ELSE IF resource = "TABLE"
              THEN << RankFeature("total_usage"), RankFeature("unique_usage") >>
              ELSE << RankFeature("total_usage") >>

(***************************************************************************)
(* Filter translator                                                       *)
(***************************************************************************)
Wildcard(filter_name, term) ==
    [type |-> "wildcard", field |-> filter_name, value |-> term]

queries_per_term(filter_name, values) ==
    [i \in 1..Len(values) |-> Wildcard(filter_name, values[i])]

\* FilterClauses with AND combined like OR: one disjunctive clause for all values
FilterClausesAndAsOr(resource, filter) ==
    LET filter_name == MappedField(resource, filter.name)
        per_term == queries_per_term(filter_name, filter.values)
    IN  IF filter.operation \in {"OR", "AND"}
        THEN [err |-> "none",
              clauses |-> << [type |-> "bool", should |-> per_term,
                              minimum_should_match |-> 1] >>]
        ELSE [err |-> "ValueError", clauses |-> << >>]

\* FilterClauses with an unrecognised operation ignored instead of raising
FilterClausesSkipUnknown(resource, filter) ==
    LET filter_name == MappedField(resource, filter.name)
        per_term == queries_per_term(filter_name, filter.values)
    IN  IF filter.operation = "OR"
        THEN [err |-> "none",
              clauses |-> << [type |-> "bool", should |-> per_term,
                              minimum_should_match |-> 1] >>]
        ELSE IF filter.operation = "AND"
             THEN [err |-> "none", clauses |-> per_term]
             ELSE [err |-> "none", clauses |-> << >>]

\* The clauses one filter appends to filter_queries, or the ValueError it raises
FilterClauses(resource, filter) ==
    LET filter_name == MappedField(resource, filter.name)
        per_term == queries_per_term(filter_name, filter.values)
    IN  IF filter.operation = "OR"
        THEN [err |-> "none",
              clauses |-> << [type |-> "bool", should |-> per_term,
                              minimum_should_match |-> 1] >>]
        ELSE IF filter.operation = "AND"
             THEN [err |-> "none", clauses |-> per_term]
             ELSE [err |-> "ValueError", clauses |-> << >>]

RECURSIVE BuildFiltersFrom(_, _, _)
BuildFiltersFrom(resource, filters, filter_queries) ==
    IF filters = << >> THEN [err |-> "none", clauses |-> filter_queries]
    ELSE LET one == FilterClauses(resource, Head(filters))
         IN  IF one.err # "none" THEN [err |-> one.err, clauses |-> << >>]
             ELSE BuildFiltersFrom(resource, Tail(filters), filter_queries \o one.clauses)

_build_filters(resource, filters) == BuildFiltersFrom(resource, filters, << >>)

_build_elasticsearch_query(resource, query_term, filters) ==
    LET must_query == _build_must_query(resource, query_term)
        should_query == _build_should_query(resource, query_term)
        built == _build_filters(resource, filters)
    IN  IF built.err # "none"
        THEN [err |-> built.err, query |-> [type |-> "none"]]
        ELSE [err |-> "none",
              query |-> [type |-> "bool", must |-> must_query,
                         should |-> should_query, filter |-> built.clauses]]

(***************************************************************************)
(* Python / elasticsearch_dsl values                                       *)
(***************************************************************************)
Str(s) == [kind |-> "str", v |-> s]
Num(n) == [kind |-> "num", v |-> n]
List(items) == [kind |-> "list", v |-> items]
Dict(d) == [kind |-> "dict", v |-> d]

\* elasticsearch_dsl.utils._wrap: what item access on an AttrDict or AttrList returns
Wrap(x) ==
    IF x.kind = "list" THEN [kind |-> "AttrList", v |-> x.v]
    ELSE IF x.kind = "dict" THEN [kind |-> "AttrDict", v |-> x.v]
    ELSE x

\* list(AttrList): iterating an AttrList wraps each item
ListOfAttrList(x) == [kind |-> "list", v |-> [i \in 1..Len(x.v) |-> Wrap(x.v[i])]]

\* AttrDict.to_dict(): the underlying plain dict
ToDict(x) == [kind |-> "dict", v |-> x.v]

(***************************************************************************)
(* Response normaliser                                                     *)
(***************************************************************************)
no_results_for_resource == [results |-> << >>, total_results |-> 0]

LowerName == [r \in Resource |-> lower(r)]

\* resource_types_str keyed by the enum names as they are, not lower-cased
resource_types_str_raw(resource_types) ==
    {resource_types[i] : i \in 1..Len(resource_types)}

resource_types_str(resource_types) ==
    {LowerName[resource_types[i]] : i \in 1..Len(resource_types)}

\* the value stored under one canonical field of a result (lines 372-378)
ResultForField(source, field) ==
    LET result_for_field == Wrap(source[field])
    IN  IF result_for_field.kind = "AttrList" THEN ListOfAttrList(result_for_field)
        ELSE IF result_for_field.kind = "AttrDict" THEN ToDict(result_for_field)
        ELSE result_for_field

\* the result dict built for one hit with the mapping of the first hit's resource type
FormatHit(search_result, fields) ==
    LET present == {f \in DOMAIN fields : fields[f] \in DOMAIN search_result._source}
    IN  [f \in present \cup {"search_score"} |->
            IF f = "search_score" THEN Num(search_result._score)
            ELSE ResultForField(search_result._source, fields[f])]

\* one successful response with hits: the entry filed under the first hit's type,
\* or the KeyError of a missing or unknown resource_type
FormatHits(r) ==
    LET first == r.hits[1]
    IN  IF "resource_type" \notin DOMAIN first._source
        THEN [err |-> "KeyError", key |-> "", entry |-> no_results_for_resource]
        ELSE LET resource_type == first._source["resource_type"].v
             IN  IF upper(resource_type) \notin Resource
                 THEN [err |-> "KeyError", key |-> resource_type,
                       entry |-> no_results_for_resource]
                 ELSE LET fields == SourceFields[upper(resource_type)]
                      IN  [err |-> "none", key |-> resource_type,
                           entry |-> [results |-> [i \in 1..Len(r.hits) |->
                                                      FormatHit(r.hits[i], fields)],
                                      total_results |-> r.total]]

\* FormatFrom with a failed response skipped instead of raising
RECURSIVE FormatFromSkipFailed(_, _)
FormatFromSkipFailed(responses, results_per_resource) ==
    IF responses = << >> THEN [err |-> "none", results |-> results_per_resource]
    ELSE LET r == Head(responses)
         IN  IF r.success /\ Len(r.hits) > 0
             THEN LET filed == FormatHits(r)
                  IN  IF filed.err # "none"
                      THEN [err |-> filed.err, results |-> results_per_resource]
                      ELSE FormatFromSkipFailed(Tail(responses),
                                                (filed.key :> filed.entry)
                                                    @@ results_per_resource)
             ELSE FormatFromSkipFailed(Tail(responses), results_per_resource)

RECURSIVE FormatFrom(_, _)
FormatFrom(responses, results_per_resource) ==
    IF responses = << >> THEN [err |-> "none", results |-> results_per_resource]
    ELSE LET r == Head(responses)
         IN  IF r.success
             THEN IF Len(r.hits) > 0
                  THEN LET filed == FormatHits(r)
                       IN  IF filed.err # "none"
                           THEN [err |-> filed.err, results |-> results_per_resource]
                           ELSE FormatFrom(Tail(responses),
                                           (filed.key :> filed.entry) @@ results_per_resource)
                  ELSE FormatFrom(Tail(responses), results_per_resource)
             ELSE [err |-> "InternalServerError", results |-> results_per_resource]

_format_response(page_index, results_per_page, responses, resource_types) ==
    LET initial == [k \in resource_types_str(resource_types) |-> no_results_for_resource]
        formatted == FormatFrom(responses, initial)
    IN  IF formatted.err # "none"
        THEN [kind |-> "error", error |-> formatted.err]
        ELSE [kind |-> "response", msg |-> "Success", page_index |-> page_index,
              results_per_page |-> results_per_page, results |-> formatted.results,
              status_code |-> 200]

(***************************************************************************)
(* Multi-resource dispatcher                                               *)
(***************************************************************************)
\* queries is a python dict: insertion-ordered, one entry per key
DictSet(d, k, q) ==
    IF \E i \in 1..Len(d) : d[i].key = k
    THEN [i \in 1..Len(d) |-> IF d[i].key = k THEN [key |-> k, query |-> q] ELSE d[i]]
    ELSE Append(d, [key |-> k, query |-> q])

\* MultiSearchBody slicing from the page index instead of page_index * page size
MultiSearchBodyPageAsOffset(queries, page_index, results_per_page) ==
    [i \in 1..Len(queries) |->
        [index |-> IndexOf[queries[i].key],
         query |-> queries[i].query,
         from |-> page_index,
         size |-> results_per_page]]

\* the searches execute_queries adds to the MultiSearch, in order (lines 403-413)
MultiSearchBody(queries, page_index, results_per_page) ==
    [i \in 1..Len(queries) |->
        LET start_from == page_index * results_per_page
            end == results_per_page * (page_index + 1)
        IN  [index |-> IndexOf[queries[i].key],
             query |-> queries[i].query,
             from |-> start_from,
             size |-> end - start_from]]

\* the loop of search() that builds one query per resource (lines 432-437)
RECURSIVE BuildQueriesFrom(_, _, _, _)
BuildQueriesFrom(resource_types, query_term, filters, queries) ==
    IF resource_types = << >> THEN [err |-> "none", queries |-> queries]
    ELSE LET built == _build_elasticsearch_query(Head(resource_types), query_term, filters)
         IN  IF built.err # "none" THEN [err |-> built.err, queries |-> queries]
             ELSE BuildQueriesFrom(Tail(resource_types), query_term, filters,
                                   DictSet(queries, Head(resource_types), built.query))

EffectiveTypes(resource_types) ==
    IF resource_types = << >> THEN PRIMARY_ENTITIES ELSE resource_types

\* execute_queries answering a raised call with a failed response, not with []
execute_queries_reports_failure(engine) ==
    IF engine.raised
    THEN << [success |-> FALSE, hits |-> << >>, total |-> 0] >>
    ELSE engine.responses

\* what execute_queries returns: the engine's responses, or [] when the call raised
execute_queries(engine) ==
    IF engine.raised THEN << >> ELSE engine.responses

(***************************************************************************)
(* State                                                                   *)
(***************************************************************************)
VARIABLES
    pc,         \* position of the search request: "idle", "executing", "done"
    req,        \* arguments of search()
    calls,      \* batched engine calls (MultiSearch.execute) made so far
    transport_failed,  \* whether the batched call raised inside execute_queries
    responses,  \* what execute_queries returned to search()
    outcome,    \* what search() returned or raised
    qin,        \* arguments of _build_elasticsearch_query (query builder runs)
    qout,       \* its result
    store,      \* the engine's documents: id -> [index, source]
    updates,    \* partial-update calls (Elasticsearch.update) sent so far
    mpc,        \* per caller, position of its mutation call: "idle", "fetched", "done"
    margs,      \* per caller, the arguments of the call
    mresp,      \* per caller, what execute_queries returned for the key query
    mlocal,     \* per caller, document_id, current_value and new_value
    mresult     \* per caller, what the call returned or raised

searchVars == <<pc, req, calls, transport_failed, responses, outcome>>
queryVars == <<qin, qout>>
mutVars == <<store, updates, mpc, margs, mresp, mlocal, mresult>>
vars == <<pc, req, calls, transport_failed, responses, outcome, qin, qout,
          store, updates, mpc, margs, mresp, mlocal, mresult>>

\* sequences over S of length at most n
RECURSIVE SeqsUpTo(_, _)
SeqsUpTo(S, n) ==
    IF n = 0 THEN {<< >>}
    ELSE LET shorter == SeqsUpTo(S, n - 1)
         IN  shorter \cup {Append(q, x) : q \in {t \in shorter : Len(t) = n - 1}, x \in S}

NoReq ==
    [query_term |-> "", page_index |-> 0, results_per_page |-> 0,
     resource_types |-> << >>, filters |-> << >>]
NoOutcome == [kind |-> "none"]
NoQuery == [resource |-> "", query_term |-> "", filters |-> << >>]
NoBuilt == [err |-> "unbuilt", query |-> [type |-> "none"]]

SearchIdle ==
    /\ pc = "idle"
    /\ req = NoReq
    /\ calls = << >>
    /\ transport_failed = FALSE
    /\ responses = << >>
    /\ outcome = NoOutcome

QueryIdle ==
    /\ qin = NoQuery
    /\ qout = NoBuilt

Callers == {"c1", "c2"}
DocIds == {"d1", "d2"}

None == [kind |-> "None", v |-> "None"]
NoArgs == [op |-> "none"]
NoLocal == [document_id |-> "", current_value |-> None, new_value |-> None]
NoResult == [kind |-> "none"]

CallersIdle ==
    /\ updates = << >>
    /\ mpc = [c \in Callers |-> "idle"]
    /\ margs = [c \in Callers |-> NoArgs]
    /\ mresp = [c \in Callers |-> << >>]
    /\ mlocal = [c \in Callers |-> NoLocal]
    /\ mresult = [c \in Callers |-> NoResult]

MutIdle ==
    /\ CallersIdle
    /\ store = [d \in DocIds |->
                    [index |-> IndexOf["TABLE"],
                     source |-> [key |-> Str(d), resource_type |-> Str("table")]]]

(***************************************************************************)
(* Query builder runs: inputs drawn at Init, BuildQuery applies the builder *)
(***************************************************************************)
QueryTerms == {"", "orders"}
FilterOperations == {"AND", "OR", "XOR"}
FilterValues == {"pii", "fin*"}

QueryFilters ==
    {[name |-> "tag", operation |-> op, values |-> vs] :
        op \in FilterOperations, vs \in SeqsUpTo(FilterValues, MaxValues)}

QueryInit ==
    /\ SearchIdle
    /\ MutIdle
    /\ qout = NoBuilt
    /\ qin \in {[resource |-> r, query_term |-> t, filters |-> fs] :
                    r \in Resource, t \in QueryTerms,
                    fs \in SeqsUpTo(QueryFilters, MaxQueryFilters)}

BuildQuery ==
    /\ qout = NoBuilt
    /\ qout' = _build_elasticsearch_query(qin.resource, qin.query_term, qin.filters)
    /\ UNCHANGED <<qin, searchVars, mutVars>>

QueryNext == BuildQuery

SpecQuery == QueryInit /\ [][QueryNext]_vars

(***************************************************************************)
(* search(): build the queries, one batched engine call, normalise          *)
(***************************************************************************)
PageSizes == {2, 10}

SearchFilters ==
    {[name |-> "tag", operation |-> op, values |-> <<"pii">>] : op \in {"AND", "XOR"}}

\* hits the engine may return; _source carries the document's own resource_type
TableHit ==
    [_id |-> "t1", _score |-> 3,
     _source |-> [resource_type |-> Str("table"), key |-> Str("db.schema.tbl"),
                  name |-> Str("tbl"), description |-> Str("orders"),
                  tags |-> List(<<Str("finance"), Str("pii")>>),
                  columns |-> List(<<Dict([name |-> Str("id")])>>)]]

DashboardHit ==
    [_id |-> "d1", _score |-> 2,
     _source |-> [resource_type |-> Str("dashboard"), key |-> Str("dash"),
                  name |-> Str("sales"), query_names |-> List(<<Str("q1")>>),
                  group_name |-> Dict([name |-> Str("bi"),
                                       owners |-> List(<<Str("ann")>>)]),
                  tags |-> Str("finance")]]

ReportHit ==
    [_id |-> "r1", _score |-> 1,
     _source |-> [resource_type |-> Str("report"), key |-> Str("rep")]]

FailedResponse == [success |-> FALSE, hits |-> << >>, total |-> 0]

\* the answers the engine may give to one query of the batch
EngineResponses ==
    { FailedResponse,
      [success |-> TRUE, hits |-> << >>, total |-> 0],
      [success |-> TRUE, hits |-> << >>, total |-> 7],
      [success |-> TRUE, hits |-> <<TableHit>>, total |-> 1],
      [success |-> TRUE, hits |-> <<DashboardHit, TableHit>>, total |-> 7],
      [success |-> TRUE, hits |-> <<ReportHit>>, total |-> 1] }

Batches(n) == [1..n -> EngineResponses]

SearchInit ==
    /\ SearchIdle
    /\ QueryIdle
    /\ MutIdle

Search(query_term, page_index, results_per_page, resource_types, filters) ==
    /\ pc = "idle"
    /\ req' = [query_term |-> query_term, page_index |-> page_index,
               results_per_page |-> results_per_page,
               resource_types |-> resource_types, filters |-> filters]
    /\ LET built == BuildQueriesFrom(EffectiveTypes(resource_types), query_term,
                                     filters, << >>)
       IN  IF built.err # "none"
           THEN /\ outcome' = [kind |-> "error", error |-> built.err]
                /\ pc' = "done"
                /\ UNCHANGED calls
           ELSE /\ calls' = Append(calls,
                                   MultiSearchBody(built.queries, page_index,
                                                   results_per_page))
                /\ pc' = "executing"
                /\ UNCHANGED outcome
    /\ UNCHANGED <<transport_failed, responses, queryVars, mutVars>>

\* the engine's answer to the batch reaches execute_queries; search() normalises it
SearchReturn(engine) ==
    /\ pc = "executing"
    /\ transport_failed' = engine.raised
    /\ responses' = execute_queries(engine)
    /\ outcome' = _format_response(req.page_index, req.results_per_page,
                                   responses', EffectiveTypes(req.resource_types))
    /\ pc' = "done"
    /\ UNCHANGED <<req, calls, queryVars, mutVars>>

EngineAnswers ==
    /\ pc = "executing"
    /\ \E resps \in Batches(Len(calls[Len(calls)])) :
          SearchReturn([raised |-> FALSE, responses |-> resps])

EngineUnreachable ==
    /\ pc = "executing"
    /\ SearchReturn([raised |-> TRUE, responses |-> << >>])

SearchRequest ==
    /\ pc = "idle"
    /\ \E query_term \in QueryTerms, page_index \in 0..MaxPage,
          results_per_page \in PageSizes,
          resource_types \in SeqsUpTo(Resource, MaxTypes),
          filters \in SeqsUpTo(SearchFilters, MaxFilters) :
             Search(query_term, page_index, results_per_page, resource_types, filters)

SearchNext ==
    \/ SearchRequest
    \/ EngineAnswers
    \/ EngineUnreachable

SpecSearch == SearchInit /\ [][SearchNext]_vars

(***************************************************************************)
(* Document mutation helper                                                *)
(***************************************************************************)
\* python truthiness of the value argument (None and "" are falsy)
Truthy(value) == value.kind = "str" /\ value.v # ""

\* the key query of get_document_json_by_key as execute_queries sends it
KeyQuery(resource_key, resource_type) ==
    MultiSearchBody(<< [key |-> resource_type,
                        query |-> [type |-> "term", field |-> "key",
                                   value |-> resource_key]] >>, 0, 1)[1]

\* the engine's evaluation of a term query against its documents
Matching(docs, search) ==
    {d \in DOMAIN docs :
        /\ docs[d].index = search.index
        /\ search.query.field \in DOMAIN docs[d].source
        /\ docs[d].source[search.query.field] = Str(search.query.value)}

HitOf(docs, d) == [_id |-> d, _score |-> 1, _source |-> docs[d].source]

TermAnswers(docs, search) ==
    LET matching == Matching(docs, search)
    IN  IF matching = {} \/ search.size = 0
        THEN {[success |-> TRUE, hits |-> << >>, total |-> Cardinality(matching)]}
        ELSE {[success |-> TRUE, hits |-> <<HitOf(docs, d)>>,
               total |-> Cardinality(matching)] : d \in matching}

\* every way the round trip of the key query can end
KeyQueryOutcomes(docs, resource_key, resource_type) ==
    {[raised |-> TRUE, responses |-> << >>]} \cup
    {[raised |-> FALSE, responses |-> <<r>>] :
        r \in TermAnswers(docs, KeyQuery(resource_key, resource_type))
              \cup {FailedResponse}}

\* get_document_json_by_key returning the first hit whenever there is at least one
get_document_json_by_key_first_hit(response) ==
    IF Len(response) < 1
    THEN [err |-> "ElasticsearchException", msg |-> "No response from ES for key query",
          hit |-> None]
    ELSE LET r == response[1]
         IN  IF r.success
             THEN IF r.total >= 1
                  THEN [err |-> "none", msg |-> "", hit |-> r.hits[1]]
                  ELSE [err |-> "ValueError",
                        msg |-> "query returned no results in ES", hit |-> None]
             ELSE [err |-> "InternalServerError",
                   msg |-> "Request to Elasticsearch failed", hit |-> None]

get_document_json_by_key(response) ==
    IF Len(response) < 1
    THEN [err |-> "ElasticsearchException", msg |-> "No response from ES for key query",
          hit |-> None]
    ELSE LET r == response[1]
         IN  IF r.success
             THEN LET results_count == r.total
                  IN  IF results_count = 1
                      THEN [err |-> "none", msg |-> "", hit |-> r.hits[1]]
                      ELSE IF results_count > 1
                           THEN [err |-> "ValueError",
                                 msg |-> "is not unique to a single ES resource",
                                 hit |-> None]
                           ELSE [err |-> "ValueError",
                                 msg |-> "query returned no results in ES",
                                 hit |-> None]
             ELSE [err |-> "InternalServerError",
                   msg |-> "Request to Elasticsearch failed", hit |-> None]

\* the first try block of update_document_by_key / delete_document_by_key
FetchCurrent(response, mapped_field) ==
    LET got == get_document_json_by_key(response)
    IN  IF got.err # "none"
        THEN [err |-> got.err, document_id |-> "", current_value |-> None]
        ELSE IF mapped_field \notin DOMAIN got.hit._source
             THEN [err |-> "AttributeError", document_id |-> got.hit._id,
                   current_value |-> None]
             ELSE [err |-> "none", document_id |-> got.hit._id,
                   current_value |-> Wrap(got.hit._source[mapped_field])]

\* lines 523-537
NewValueForUpdate(current_value, value, operation) ==
    IF operation = "overwrite"
    THEN IF current_value.kind = "AttrList" THEN List(<<value>>) ELSE value
    ELSE IF current_value.kind = "AttrList"
         THEN List(Append(ListOfAttrList(current_value).v, value))
         ELSE List(<<current_value, value>>)

\* list.remove(value): drops the first occurrence
RECURSIVE RemoveFirst(_, _)
RemoveFirst(items, value) ==
    IF items = << >> THEN << >>
    ELSE IF Head(items) = value THEN Tail(items)
    ELSE <<Head(items)>> \o RemoveFirst(Tail(items), value)

\* lines 571-583; list.remove raises ValueError when the value is absent
NewValueForDelete(current_value, value) ==
    IF current_value.kind = "AttrList"
    THEN IF Truthy(value)
         THEN LET curr_list == ListOfAttrList(current_value).v
              IN  IF \E i \in 1..Len(curr_list) : curr_list[i] = value
                  THEN [err |-> "none", value |-> List(RemoveFirst(curr_list, value))]
                  ELSE [err |-> "ValueError", value |-> current_value]
         ELSE [err |-> "none", value |-> List(<< >>)]
    ELSE [err |-> "none", value |-> Str("")]

\* the partial update update_document_by_id sends
PartialUpdate(resource_type, field, new_value, document_id) ==
    [index |-> IndexOf[resource_type], id |-> document_id,
     doc |-> [field |-> field, value |-> new_value]]

\* the engine merging a partial document into the stored _source
ApplyUpdate(docs, call) ==
    [docs EXCEPT ![call.id].source = (call.doc.field :> call.doc.value) @@ @]

Returned(msg) == [kind |-> "returned", msg |-> msg]
Raised(error, msg) == [kind |-> "raised", error |-> error, msg |-> msg]

GetDocument(c, resource_key, resource_type) ==
    /\ mpc[c] = "idle"
    /\ \E engine \in KeyQueryOutcomes(store, resource_key, resource_type) :
          LET got == get_document_json_by_key(execute_queries(engine))
          IN  /\ mresp' = [mresp EXCEPT ![c] = execute_queries(engine)]
              /\ mresult' = [mresult EXCEPT ![c] =
                                IF got.err = "none"
                                THEN [kind |-> "returned", hit |-> got.hit]
                                ELSE Raised(got.err, got.msg)]
    /\ margs' = [margs EXCEPT ![c] = [op |-> "get", resource_key |-> resource_key,
                                      resource_type |-> resource_type]]
    /\ mpc' = [mpc EXCEPT ![c] = "done"]
    /\ UNCHANGED <<store, updates, mlocal, searchVars, queryVars>>

\* update_document_by_key up to the point where the partial update is sent
UpdateDocumentByKey(c, resource_key, resource_type, field, value, operation) ==
    /\ mpc[c] = "idle"
    /\ margs' = [margs EXCEPT ![c] = [op |-> "update", resource_key |-> resource_key,
                                      resource_type |-> resource_type, field |-> field,
                                      value |-> value, operation |-> operation]]
    /\ \E engine \in KeyQueryOutcomes(store, resource_key, resource_type) :
          LET mapped_field == MappedField(resource_type, field)
              fetched == FetchCurrent(execute_queries(engine), mapped_field)
          IN  /\ mresp' = [mresp EXCEPT ![c] = execute_queries(engine)]
              /\ IF fetched.err # "none"
                 THEN /\ mresult' = [mresult EXCEPT ![c] =
                            Returned("Failed to get ES document id and current value")]
                      /\ mpc' = [mpc EXCEPT ![c] = "done"]
                      /\ UNCHANGED mlocal
                 ELSE /\ mlocal' = [mlocal EXCEPT ![c] =
                            [document_id |-> fetched.document_id,
                             current_value |-> fetched.current_value,
                             new_value |-> NewValueForUpdate(fetched.current_value,
                                                             value, operation)]]
                      /\ mpc' = [mpc EXCEPT ![c] = "fetched"]
                      /\ UNCHANGED mresult
    /\ UNCHANGED <<store, updates, searchVars, queryVars>>

\* delete_document_by_key up to the point where the partial update is sent
DeleteDocumentByKey(c, resource_key, resource_type, field, value) ==
    /\ mpc[c] = "idle"
    /\ margs' = [margs EXCEPT ![c] = [op |-> "delete", resource_key |-> resource_key,
                                      resource_type |-> resource_type, field |-> field,
                                      value |-> value, operation |-> "delete"]]
    /\ \E engine \in KeyQueryOutcomes(store, resource_key, resource_type) :
          LET mapped_field == MappedField(resource_type, field)
              fetched == FetchCurrent(execute_queries(engine), mapped_field)
              removed == NewValueForDelete(fetched.current_value, value)
          IN  /\ mresp' = [mresp EXCEPT ![c] = execute_queries(engine)]
              /\ IF fetched.err # "none"
                 THEN /\ mresult' = [mresult EXCEPT ![c] =
                            Returned("Failed to get ES document id and current value")]
                      /\ mpc' = [mpc EXCEPT ![c] = "done"]
                      /\ UNCHANGED mlocal
                 ELSE IF removed.err # "none"
                      THEN /\ mresult' = [mresult EXCEPT ![c] =
                                 Raised(removed.err, "list.remove(x): x not in list")]
                           /\ mpc' = [mpc EXCEPT ![c] = "done"]
                           /\ mlocal' = [mlocal EXCEPT ![c] =
                                 [document_id |-> fetched.document_id,
                                  current_value |-> fetched.current_value,
                                  new_value |-> fetched.current_value]]
                      ELSE /\ mlocal' = [mlocal EXCEPT ![c] =
                                 [document_id |-> fetched.document_id,
                                  current_value |-> fetched.current_value,
                                  new_value |-> removed.value]]
                           /\ mpc' = [mpc EXCEPT ![c] = "fetched"]
                           /\ UNCHANGED mresult
    /\ UNCHANGED <<store, updates, searchVars, queryVars>>

\* the partial update computed from the document as stored when it is sent, not
\* from the value fetched earlier
PendingUpdateFromStore(c) ==
    PartialUpdate(margs[c].resource_type,
                  MappedField(margs[c].resource_type, margs[c].field),
                  NewValueForUpdate(
                      Wrap(store[mlocal[c].document_id].source[
                               MappedField(margs[c].resource_type, margs[c].field)]),
                      margs[c].value, margs[c].operation),
                  mlocal[c].document_id)

PendingUpdate(c) ==
    PartialUpdate(margs[c].resource_type,
                  MappedField(margs[c].resource_type, margs[c].field),
                  mlocal[c].new_value, mlocal[c].document_id)

\* update_document_by_id succeeds: the engine merges the partial document
UpdateDocumentById(c) ==
    /\ mpc[c] = "fetched"
    /\ store[mlocal[c].document_id].index = PendingUpdate(c).index
    /\ updates' = Append(updates, PendingUpdate(c))
    /\ store' = ApplyUpdate(store, PendingUpdate(c))
    /\ mresult' = [mresult EXCEPT ![c] =
                      IF margs[c].op = "update"
                      THEN Returned("was updated successfully")
                      ELSE Returned("was deleted successfully")]
    /\ mpc' = [mpc EXCEPT ![c] = "done"]
    /\ UNCHANGED <<margs, mresp, mlocal, searchVars, queryVars>>

\* update_document_by_id raises: the message of the second except block is returned
UpdateDocumentByIdRaises(c) ==
    /\ mpc[c] = "fetched"
    /\ updates' = Append(updates, PendingUpdate(c))
    /\ mresult' = [mresult EXCEPT ![c] =
                      IF margs[c].op = "update"
                      THEN Returned("Failed to update field")
                      ELSE Returned("Failed to delete field")]
    /\ mpc' = [mpc EXCEPT ![c] = "done"]
    /\ UNCHANGED <<store, margs, mresp, mlocal, searchVars, queryVars>>

(***************************************************************************)
(* Mutation runs: one call by one caller against a store drawn at Init      *)
(***************************************************************************)
TagValues == {Str("finance"), Str("pii")}

TagChoices ==
    {Str("finance")} \cup {List(tags) : tags \in SeqsUpTo(TagValues, MaxTags)}

BaseSource(key) ==
    [key |-> Str(key), resource_type |-> Str("table"), description |-> Str("orders")]

\* the primary document: tags absent or drawn from TagChoices, and optionally a
\* literal "tags.keyword" entry in its _source
PrimarySources ==
    LET withTags == {BaseSource("db.schema.tbl")} \cup
                    {("tags" :> t) @@ BaseSource("db.schema.tbl") : t \in TagChoices}
    IN  withTags \cup {("tags.keyword" :> Str("finance")) @@ src : src \in withTags}

MutKeys == {"db.schema.tbl", "db.schema.none"}
MutFields == {"tag", "tags", "description"}
MutValues == {Str("pii"), Str(""), None}
MutOperations == {"add", "overwrite"}
SerialCallers == {"c1"}

MutInit ==
    /\ SearchIdle
    /\ QueryIdle
    /\ CallersIdle
    /\ \E src \in PrimarySources, key2 \in {"db.schema.tbl", "db.schema.other"} :
          store = [d \in DocIds |->
                      IF d = "d1"
                      THEN [index |-> IndexOf["TABLE"], source |-> src]
                      ELSE [index |-> IndexOf["TABLE"],
                            source |-> ("tags" :> List(<<Str("finance")>>))
                                       @@ BaseSource(key2)]]

GetCall ==
    \E c \in SerialCallers, resource_key \in MutKeys, resource_type \in Resource :
        GetDocument(c, resource_key, resource_type)

UpdateCall ==
    \E c \in SerialCallers, resource_key \in MutKeys, resource_type \in Resource,
       field \in MutFields, value \in MutValues, operation \in MutOperations :
        UpdateDocumentByKey(c, resource_key, resource_type, field, value, operation)

DeleteCall ==
    \E c \in SerialCallers, resource_key \in MutKeys, resource_type \in Resource,
       field \in MutFields, value \in MutValues :
        DeleteDocumentByKey(c, resource_key, resource_type, field, value)

EngineUpdates == \E c \in SerialCallers : UpdateDocumentById(c)

EngineRejectsUpdate == \E c \in SerialCallers : UpdateDocumentByIdRaises(c)

MutNext ==
    \/ GetCall
    \/ UpdateCall
    \/ DeleteCall
    \/ EngineUpdates
    \/ EngineRejectsUpdate

SpecMutate == MutInit /\ [][MutNext]_vars

(***************************************************************************)
(* Concurrent mutation: two callers update the same document; each call is  *)
(* a fetch step and a later write step, and the steps interleave freely     *)
(***************************************************************************)
RaceKey == "db.schema.tbl"
RaceFields == {"tags", "description"}
RaceValues == {Str("pii"), Str("gdpr")}

RaceInit ==
    /\ SearchIdle
    /\ QueryIdle
    /\ CallersIdle
    /\ \E t \in TagChoices :
          store = [d \in DocIds |->
                      IF d = "d1"
                      THEN [index |-> IndexOf["TABLE"],
                            source |-> ("tags" :> t) @@ BaseSource(RaceKey)]
                      ELSE [index |-> IndexOf["TABLE"],
                            source |-> ("tags" :> List(<<Str("finance")>>))
                                       @@ BaseSource("db.schema.other")]]

RaceUpdateCall ==
    \E c \in Callers, field \in RaceFields, value \in RaceValues,
       operation \in MutOperations :
        UpdateDocumentByKey(c, RaceKey, "TABLE", field, value, operation)

RaceEngineUpdates == \E c \in Callers : UpdateDocumentById(c)

RaceEngineRejectsUpdate == \E c \in Callers : UpdateDocumentByIdRaises(c)

RaceNext ==
    \/ RaceUpdateCall
    \/ RaceEngineUpdates
    \/ RaceEngineRejectsUpdate

SpecRace == RaceInit /\ [][RaceNext]_vars

(***************************************************************************)
(* Properties of the query builder and the filter translator (SpecQuery)    *)
(***************************************************************************)
ValidOperations == {"AND", "OR"}

AllValid(filters) == \A i \in 1..Len(filters) : filters[i].operation \in ValidOperations

Built == qout # NoBuilt

\* C1: for every resource type and every list of valid filters, the composite query
\* built for an empty search term has no must clause and no should clause, and its
\* filter clauses are exactly those the filter translator produces for the filters.
C1_EmptyTermOnlyFilters ==
    (Built /\ qin.query_term = "" /\ AllValid(qin.filters)) =>
        /\ qout.err = "none"
        /\ qout.query.type = "bool"
        /\ Len(qout.query.must) = 0
        /\ Len(qout.query.should) = 0
        /\ qout.query.filter = _build_filters(qin.resource, qin.filters).clauses

C1_Witness ==
    /\ Built
    /\ qin.query_term = ""
    /\ Len(qin.filters) = 2
    /\ AllValid(qin.filters)
    /\ qout.err = "none"
    /\ Len(qout.query.filter) >= 2

\* the engine field the claim expects a filter's sub-clauses to target
ExpectedFilterField(resource, name) ==
    IF name \in DOMAIN RESOUCE_TO_MAPPING[resource]
    THEN RESOUCE_TO_MAPPING[resource][name]
    ELSE name

\* number of mandatory filter clauses a filter contributes
Width(filter) == IF filter.operation = "OR" THEN 1 ELSE Len(filter.values)

RECURSIVE Offset(_, _)
Offset(filters, i) == IF i <= 1 THEN 0 ELSE Offset(filters, i - 1) + Width(filters[i - 1])

\* C2: a filter with n values yields, for OR, exactly one mandatory clause that is a
\* disjunction of its n per-value wildcard sub-clauses with minimum_should_match 1,
\* and for AND exactly n mandatory wildcard clauses, one per value in order; every
\* sub-clause targets the mapped engine field, or the literal name when unmapped.
C2_FilterTranslation ==
    (Built /\ AllValid(qin.filters)) =>
        LET clauses == qout.query.filter
            fs == qin.filters
        IN  /\ qout.err = "none"
            /\ Len(clauses) = Offset(fs, Len(fs) + 1)
            /\ \A i \in 1..Len(fs) :
                  LET n == Len(fs[i].values)
                      off == Offset(fs, i)
                      target == ExpectedFilterField(qin.resource, fs[i].name)
                  IN  IF fs[i].operation = "OR"
                      THEN /\ clauses[off + 1].type = "bool"
                           /\ clauses[off + 1].minimum_should_match = 1
                           /\ Len(clauses[off + 1].should) = n
                           /\ \A k \in 1..n :
                                 clauses[off + 1].should[k] =
                                     [type |-> "wildcard", field |-> target,
                                      value |-> fs[i].values[k]]
                      ELSE \A k \in 1..n :
                              clauses[off + k] =
                                  [type |-> "wildcard", field |-> target,
                                   value |-> fs[i].values[k]]

C2_Witness ==
    /\ Built
    /\ qout.err = "none"
    /\ qin.resource = "TABLE"
    /\ Len(qin.filters) = 2
    /\ qin.filters[1].operation = "AND" /\ Len(qin.filters[1].values) = 2
    /\ qin.filters[2].operation = "OR" /\ Len(qin.filters[2].values) = 2
    /\ Len(qout.query.filter) = 3
    /\ qout.query.filter[1].field = "tags.keyword"

(***************************************************************************)
(* Properties of search() (SpecSearch)                                      *)
(***************************************************************************)
Requested == EffectiveTypes(req.resource_types)
RequestedSet == {Requested[i] : i \in 1..Len(Requested)}

\* the result key and the index name of every resource type, written out
ResultKey ==
    [TABLE |-> "table", DASHBOARD |-> "dashboard", FEATURE |-> "feature", USER |-> "user"]
IndexName ==
    [TABLE |-> "table_search_index", DASHBOARD |-> "dashboard_search_index",
     FEATURE |-> "feature_search_index", USER |-> "user_search_index"]

BadFilterAt(i) == i \in 1..Len(req.filters) /\ req.filters[i].operation \notin ValidOperations

\* C3: when any filter of the request has an operation other than AND or OR, the
\* search ends with the invalid-operation error (a ValueError) and the log of batched
\* engine calls is empty in every state of the request, wherever the bad filter
\* stands in the list and whichever resource types were requested.
C3_InvalidOperationBeforeDispatch ==
    (pc # "idle" /\ \E i \in 1..Len(req.filters) : BadFilterAt(i)) =>
        /\ pc = "done"
        /\ outcome = [kind |-> "error", error |-> "ValueError"]
        /\ calls = << >>
        /\ responses = << >>

C3_Witness ==
    /\ pc = "done"
    /\ Len(req.filters) = 2
    /\ ~BadFilterAt(1)
    /\ BadFilterAt(2)
    /\ req.resource_types = <<"DASHBOARD", "TABLE">>
    /\ outcome.kind = "error"
    /\ calls = << >>

\* C8: a search whose filters are valid makes exactly one batched engine call; the
\* batch carries one query per requested resource type (an empty request list stands
\* for the four primary entities, and a type listed twice is one requested type), in
\* the order of first request, each addressed to "<lower-cased name>_search_index",
\* carrying that type's composite query, with offset p*s and limit s.
C8_OneBatchOneQueryPerType ==
    (pc # "idle" /\ AllValid(req.filters)) =>
        /\ Len(calls) = 1
        /\ LET batch == calls[1]
               p == req.page_index
               s == req.results_per_page
           IN  /\ Len(batch) = Cardinality(RequestedSet)
               /\ \A r \in RequestedSet :
                     Cardinality({i \in 1..Len(batch) : batch[i].index = IndexName[r]}) = 1
               /\ \A i \in 1..Len(batch) :
                     /\ batch[i].from = p * s
                     /\ batch[i].size = s
                     /\ batch[i].from + batch[i].size = (p + 1) * s
                     /\ \E r \in RequestedSet :
                           /\ batch[i].index = IndexName[r]
                           /\ batch[i].query =
                                 _build_elasticsearch_query(r, req.query_term,
                                                            req.filters).query
               /\ (Len(req.resource_types) = Cardinality(RequestedSet)) =>
                     \A i \in 1..Len(batch) :
                        batch[i].index = IndexName[req.resource_types[i]]

C8_Witness ==
    /\ pc = "done"
    /\ req.resource_types = <<"TABLE", "DASHBOARD">>
    /\ req.page_index = 1
    /\ req.results_per_page = 10
    /\ Len(calls) = 1
    /\ Len(calls[1]) = 2
    /\ calls[1][1].index = "table_search_index"
    /\ calls[1][2].index = "dashboard_search_index"
    /\ calls[1][1].from = 10 /\ calls[1][1].size = 10
    /\ calls[1][2].from = 10 /\ calls[1][2].size = 10

\* the successful raw responses with at least one hit that are filed under key k
FiledUnder(k) ==
    {i \in 1..Len(responses) :
        /\ responses[i].success
        /\ Len(responses[i].hits) > 0
        /\ "resource_type" \in DOMAIN responses[i].hits[1]._source
        /\ responses[i].hits[1]._source["resource_type"].v = k}

EmptyDefault == [results |-> << >>, total_results |-> 0]

\* C4: in every response the normaliser produces, each requested resource type is a
\* key of the results; a requested type under which no successful raw response with
\* hits was filed (its response had zero hits, or there was no raw response at all)
\* maps to {results: [], total_results: 0}, and an entry differs from that default
\* only when a successful raw response with at least one hit was filed under it (a
\* response is filed under the resource_type of its first hit).
C4_RequestedTypesDefaultEmpty ==
    (pc = "done" /\ outcome.kind = "response") =>
        \A r \in RequestedSet :
            /\ ResultKey[r] \in DOMAIN outcome.results
            /\ (FiledUnder(ResultKey[r]) = {}) => outcome.results[ResultKey[r]] = EmptyDefault
            /\ (outcome.results[ResultKey[r]] # EmptyDefault) =>
                   \E i \in FiledUnder(ResultKey[r]) :
                       /\ Len(outcome.results[ResultKey[r]].results) > 0
                       /\ outcome.results[ResultKey[r]].total_results \in
                              {responses[j].total : j \in FiledUnder(ResultKey[r])}

C4_Witness ==
    /\ pc = "done"
    /\ outcome.kind = "response"
    /\ req.resource_types = <<"FEATURE", "DASHBOARD">>
    /\ Len(responses) = 2
    /\ responses[1].success /\ responses[1].hits = << >> /\ responses[1].total = 7
    /\ Len(responses[2].hits) > 0
    /\ outcome.results["feature"] = EmptyDefault
    /\ outcome.results["dashboard"].total_results = 7
    /\ Len(outcome.results["dashboard"].results) = 2

FailedAt(i) == i \in 1..Len(responses) /\ ~responses[i].success

\* a response before position i that already aborts normalisation with a KeyError
UnknownTypeBefore(i) ==
    \E j \in 1..(i - 1) :
        /\ responses[j].success
        /\ Len(responses[j].hits) > 0
        /\ upper(responses[j].hits[1]._source["resource_type"].v) \notin Resource

\* C9: when a raw response of the batch reports an engine-side failure, the search
\* raises and returns no response, wherever the failed response stands and however
\* many others succeeded with hits; the error is the server error
\* (InternalServerError) raised for the first failed response, unless an earlier
\* response already raised while being normalised.
C9_EngineFailureAbortsRequest ==
    (pc = "done" /\ \E i \in 1..Len(responses) : FailedAt(i)) =>
        /\ outcome.kind = "error"
        /\ outcome.error \in {"InternalServerError", "KeyError"}
        /\ LET first == CHOOSE i \in 1..Len(responses) :
                            FailedAt(i) /\ \A j \in 1..(i - 1) : ~FailedAt(j)
           IN  ~UnknownTypeBefore(first) => outcome.error = "InternalServerError"

C9_Witness ==
    /\ pc = "done"
    /\ Len(responses) = 2
    /\ responses[1].success /\ Len(responses[1].hits) > 0
    /\ FailedAt(2)
    /\ outcome = [kind |-> "error", error |-> "InternalServerError"]

\* C10: when the batched engine call fails at the transport level, execute_queries
\* returns an empty list and raises nothing, and the search returns a success
\* response (status 200) whose results hold exactly the requested resource types,
\* each with {results: [], total_results: 0}.
C10_TransportFailureEmptyResults ==
    (pc = "done" /\ transport_failed) =>
        /\ responses = << >>
        /\ Len(calls) = 1
        /\ outcome.kind = "response"
        /\ outcome.msg = "Success"
        /\ outcome.status_code = 200
        /\ outcome.page_index = req.page_index
        /\ outcome.results_per_page = req.results_per_page
        /\ DOMAIN outcome.results = {ResultKey[r] : r \in RequestedSet}
        /\ \A k \in DOMAIN outcome.results : outcome.results[k] = EmptyDefault

C10_Witness ==
    /\ pc = "done"
    /\ transport_failed
    /\ req.resource_types = <<"TABLE", "USER">>
    /\ outcome.kind = "response"
    /\ outcome.results = [table |-> EmptyDefault, user |-> EmptyDefault]

(***************************************************************************)
(* Properties of the document mutation helper (SpecMutate)                  *)
(***************************************************************************)
\* the engine answered caller c's key query successfully
Answered(c) == Len(mresp[c]) = 1 /\ mresp[c][1].success

\* the number of documents the engine reported for the key
Matches(c) == mresp[c][1].total

NotFound == Raised("ValueError", "query returned no results in ES")
NonUniqueKey == Raised("ValueError", "is not unique to a single ES resource")

\* C5: when the engine answers the key query successfully with n matching documents,
\* get_document_json_by_key raises the not-found error for n = 0, raises the
\* non-unique-key error for n >= 2, and returns a document exactly when n = 1: the
\* stored document with that key, with its identifier and current _source.
C5_UniqueKeyLookup ==
    \A c \in Callers :
        (mpc[c] = "done" /\ margs[c].op = "get" /\ Answered(c)) =>
            /\ Matches(c) = 0 => mresult[c] = NotFound
            /\ Matches(c) >= 2 => mresult[c] = NonUniqueKey
            /\ (mresult[c].kind = "returned") <=> (Matches(c) = 1)
            /\ Matches(c) = 1 =>
                  \E d \in DocIds :
                      /\ mresult[c].hit._id = d
                      /\ mresult[c].hit._source = store[d].source
                      /\ store[d].index = IndexName[margs[c].resource_type]
                      /\ store[d].source["key"] = Str(margs[c].resource_key)
                      /\ \A e \in DocIds \ {d} :
                            ~(/\ store[e].index = store[d].index
                              /\ store[e].source["key"] = Str(margs[c].resource_key))

C5_Witness ==
    /\ mpc["c1"] = "done"
    /\ margs["c1"].op = "get"
    /\ Answered("c1")
    /\ Matches("c1") = 2
    /\ mresult["c1"] = NonUniqueKey

\* the _source field under which the normaliser reads a canonical field (line 370)
CanonicalSourceField(resource_type, field) ==
    split_dot_first(ExpectedFilterField(resource_type, field))

\* caller c's call found exactly one document by its key
FoundByKey(c) == Answered(c) /\ Matches(c) = 1

FetchedSource(c) == mresp[c][1].hits[1]._source

\* the value update_field is to persist, from the old value, the value and the operation
ExpectedNewValue(old, value, operation) ==
    IF operation = "add"
    THEN IF old.kind = "list" THEN List(Append(old.v, value)) ELSE List(<<old, value>>)
    ELSE IF old.kind = "list" THEN List(<<value>>) ELSE value

\* C6: update_field on a document found by its unique key, whose named field has a
\* current value, ends (unless the engine rejects the partial update) with a success
\* message and with the field holding: add on a scalar old -> [old, value]; add on a
\* sequence -> the sequence with value appended; overwrite on a scalar -> value;
\* overwrite on a sequence -> [value].  The field is the one the normaliser shows
\* under that canonical name; so update_field(Table, "tag", "pii", add) on a tag
\* value "finance" ends with ["finance", "pii"].
C6_UpdateFieldRules ==
    \A c \in Callers :
        LET f == CanonicalSourceField(margs[c].resource_type, margs[c].field)
        IN  (/\ mpc[c] = "done"
             /\ margs[c].op = "update"
             /\ FoundByKey(c)
             /\ f \in DOMAIN FetchedSource(c)
             /\ mresult[c] # Returned("Failed to update field")) =>
                /\ mresult[c] = Returned("was updated successfully")
                /\ store[mresp[c][1].hits[1]._id].source[f] =
                       ExpectedNewValue(FetchedSource(c)[f], margs[c].value,
                                        margs[c].operation)

\* the four rules of C6 for the field the code does read and write (the mapped name)
UpdateRulesOnMappedField ==
    \A c \in Callers :
        LET f == ExpectedFilterField(margs[c].resource_type, margs[c].field)
        IN  (/\ mpc[c] = "done"
             /\ margs[c].op = "update"
             /\ FoundByKey(c)
             /\ f \in DOMAIN FetchedSource(c)
             /\ mresult[c] # Returned("Failed to update field")) =>
                /\ mresult[c] = Returned("was updated successfully")
                /\ store[mresp[c][1].hits[1]._id].source[f] =
                       ExpectedNewValue(FetchedSource(c)[f], margs[c].value,
                                        margs[c].operation)

\* C7: delete_field_value with a non-empty value that is absent from the document's
\* sequence-typed field returns a failure message (it does not raise), sends no
\* partial update and leaves the document unchanged.
C7_DeleteAbsentValueReturnsMessage ==
    \A c \in Callers :
        LET f == CanonicalSourceField(margs[c].resource_type, margs[c].field)
        IN  (/\ mpc[c] = "done"
             /\ margs[c].op = "delete"
             /\ FoundByKey(c)
             /\ f \in DOMAIN FetchedSource(c)
             /\ FetchedSource(c)[f].kind = "list"
             /\ Truthy(margs[c].value)
             /\ \A i \in 1..Len(FetchedSource(c)[f].v) :
                    FetchedSource(c)[f].v[i] # margs[c].value) =>
                /\ mresult[c].kind = "returned"
                /\ mresult[c].msg \in {"Failed to delete field",
                                       "Failed to get ES document id and current value"}
                /\ updates = << >>
                /\ store[mresp[c][1].hits[1]._id].source = FetchedSource(c)

\* the parts of C7 the code does satisfy: nothing is sent and the document is unchanged
DeleteAbsentValueSendsNothing ==
    \A c \in Callers :
        LET f == ExpectedFilterField(margs[c].resource_type, margs[c].field)
        IN  (/\ mpc[c] = "done"
             /\ margs[c].op = "delete"
             /\ FoundByKey(c)
             /\ f \in DOMAIN FetchedSource(c)
             /\ FetchedSource(c)[f].kind = "list"
             /\ Truthy(margs[c].value)
             /\ \A i \in 1..Len(FetchedSource(c)[f].v) :
                    FetchedSource(c)[f].v[i] # margs[c].value) =>
                /\ mresult[c] = Raised("ValueError", "list.remove(x): x not in list")
                /\ updates = << >>
                /\ store[mresp[c][1].hits[1]._id].source = FetchedSource(c)

(***************************************************************************)
(* Properties of the values in normalised results (SpecSearch)              *)
(***************************************************************************)
\* a value is, or holds at some depth, an AttrList or an AttrDict
RECURSIVE ContainsWrapper(_)
ContainsWrapper(x) ==
    IF x.kind \in {"AttrList", "AttrDict"} THEN TRUE
    ELSE IF x.kind = "list" THEN \E i \in 1..Len(x.v) : ContainsWrapper(x.v[i])
    ELSE IF x.kind = "dict" THEN \E k \in DOMAIN x.v : ContainsWrapper(x.v[k])
    ELSE FALSE

\* the field values of every result of the response search() returned
NormalizedValues ==
    IF pc = "done" /\ outcome.kind = "response"
    THEN UNION {UNION {{outcome.results[k].results[i][f] :
                           f \in DOMAIN outcome.results[k].results[i]} :
                       i \in 1..Len(outcome.results[k].results)} :
                k \in DOMAIN outcome.results}
    ELSE {}

\* C11: no value of a normalised result is an engine wrapper or holds one at any
\* depth: a sequence-typed engine value appears as a plain list and an object-typed
\* one as a plain dict, the values nested inside them included.
C11_NoWrapperSurvives ==
    \A x \in NormalizedValues : ~ContainsWrapper(x)

\* the part of C11 the code does satisfy: the value of a field is itself never a
\* wrapper, and an object-typed value is plain at every depth (to_dict)
TopLevelValuesArePlain ==
    \A x \in NormalizedValues :
        /\ x.kind \notin {"AttrList", "AttrDict"}
        /\ x.kind = "dict" => ~ContainsWrapper(x)

\* a normalised result with a sequence-typed and an object-typed value
SequenceAndMappingNormalized ==
    /\ \E x \in NormalizedValues : x.kind = "list"
    /\ \E x \in NormalizedValues :
          x.kind = "dict" /\ \E k \in DOMAIN x.v : x.v[k].kind = "list"

(***************************************************************************)
(* Properties of concurrent mutation (SpecRace)                             *)
(***************************************************************************)
\* caller c's update_document_by_key(add) has returned the success message
AddSucceeded(c) ==
    /\ mpc[c] = "done"
    /\ margs[c].op = "update"
    /\ margs[c].operation = "add"
    /\ mresult[c] = Returned("was updated successfully")

\* two distinct callers added to the same field of the same document, both with
\* success, and both fetched the same current value: an add always changes the
\* stored value, so neither fetch saw the other call's write
BothFetchedBeforeEitherWrote(c, d) ==
    /\ c # d
    /\ AddSucceeded(c)
    /\ AddSucceeded(d)
    /\ margs[c].field = margs[d].field
    /\ mlocal[c].document_id = mlocal[d].document_id
    /\ mlocal[c].current_value = mlocal[d].current_value

\* the items of a fetched value as the add rule sees them
FetchedItems(current_value) ==
    IF current_value.kind = "AttrList" THEN ListOfAttrList(current_value).v
    ELSE <<current_value>>

StoredValue(c) ==
    store[mlocal[c].document_id].source[
        MappedField(margs[c].resource_type, margs[c].field)]

\* C12: fetch and write are separate steps and the write carries no version: when
\* two concurrent add calls on the same document and field both fetched before
\* either wrote and both report success, two partial updates were applied and the
\* stored value is the one written last, i.e. the fetched items plus the value of
\* one call only; the other call's added value is lost.
C12_ConcurrentAddsLastWriterWins ==
    \A c, d \in Callers :
        BothFetchedBeforeEitherWrote(c, d) =>
            /\ Len(updates) = 2
            /\ DOMAIN updates[2] = {"index", "id", "doc"}
            /\ StoredValue(c) = updates[2].doc.value
            /\ \E w \in {c, d} :
                   /\ updates[2] = PendingUpdate(w)
                   /\ StoredValue(c) =
                          List(Append(FetchedItems(mlocal[c].current_value),
                                      margs[w].value))

C12_Witness ==
    /\ BothFetchedBeforeEitherWrote("c1", "c2")
    /\ margs["c1"].field = "tags"
    /\ margs["c1"].value = Str("pii")
    /\ margs["c2"].value = Str("gdpr")
    /\ mlocal["c1"].current_value = Wrap(List(<<Str("finance")>>))
    /\ updates[1].doc.value = List(<<Str("finance"), Str("pii")>>)
    /\ store["d1"].source["tags"] = List(<<Str("finance"), Str("gdpr")>>)

\* the contrast: when the second call fetched after the first one wrote, both added
\* values are kept
SerialAddsKeepBoth ==
    \A c, d \in Callers :
        (/\ c # d
         /\ AddSucceeded(c)
         /\ AddSucceeded(d)
         /\ margs[c].field = margs[d].field
         /\ mlocal[d].current_value = Wrap(mlocal[c].new_value)) =>
            StoredValue(c) =
                List(FetchedItems(mlocal[c].current_value)
                         \o <<margs[c].value, margs[d].value>>)

====
